---------------------------- MODULE Spec2Model ----------------------------
(***************************************************************************)
(* Alien Invasion (Star Wars theme): the frame loop of AlienInvasion,      *)
(* the ship and its arsenal, the alien fleet, the dynamic settings and    *)
(* the game statistics.                                                    *)
(*                                                                         *)
(* Numbers.  Positions and speeds are Python floats in the source.  Every  *)
(* float the game computes is a sum of integers and of speeds, and a speed *)
(* is an integer multiplied by 1.1 once per completed level, so with at    *)
(* most MaxLevel - 1 completed levels every float is a multiple of         *)
(* 1 / Unit, Unit = 10^(MaxLevel - 1).  The model stores a float v as the  *)
(* integer v * Unit (exact decimal arithmetic; the binary rounding error   *)
(* of the floats, about 1e-13, is not modelled).  A pygame Rect holds      *)
(* integers: assigning a float to rect.x stores int(float), Trunc below.   *)
(***************************************************************************)
EXTENDS Integers, Sequences, FiniteSets, TLC

(***************************************************************************)
(* Bounds of the model.                                                    *)
(***************************************************************************)
\* frames explored after the start state of a scenario
MaxFrames == 2
\* the level counter is capped: a frame that would pass it is not taken
MaxLevel == 3

(***************************************************************************)
(* Settings.__init__ and Settings.initialize_dynamic_settings.             *)
(***************************************************************************)
screen_w == 1000
screen_h == 800
ship_w == 80
ship_h == 60
alien_w == 55
alien_h == 55
settings_fleet_direction == 1
button_w == 200
button_h == 50
\* difficulty_scale = 1.1, as the fraction 11 / 10
difficulty_scale_num == 11
difficulty_scale_den == 10
start_ship_speed == 5
starting_ship_count == 2
start_bullet_speed == 7
bullet_w == 25
bullet_h == 80
start_bullet_amount == 5
start_fleet_speed == 4
start_fleet_drop_speed == 50
start_alien_points == 50
\* AlienFleet.calculate_fleet_size: size = max(7, size)
min_fleet_size == 7

RECURSIVE Pow(_, _)
Pow(b, e) == IF e = 0 THEN 1 ELSE b * Pow(b, e - 1)

\* one float unit, see the note on numbers
Unit == Pow(difficulty_scale_den, MaxLevel - 1)

\* float(i) for an integer i
Float(i) == i * Unit

\* int(v) for a float v: truncation toward zero
Trunc(v) == IF v >= 0 THEN v \div Unit ELSE -((-v) \div Unit)

Min(a, b) == IF a <= b THEN a ELSE b
Max(a, b) == IF a >= b THEN a ELSE b

(***************************************************************************)
(* Rectangles (pygame.Rect): integer x, y, w, h.                           *)
(***************************************************************************)
Rect(x, y, w, h) == [x |-> x, y |-> y, w |-> w, h |-> h]

\* pygame.Rect.colliderect: the interiors overlap (touching edges do not)
colliderect(a, b) ==
    /\ a.x < b.x + b.w
    /\ a.y < b.y + b.h
    /\ a.x + a.w > b.x
    /\ a.y + a.h > b.y

\* pygame.Rect.collidepoint: left/top edges inside, right/bottom outside
collidepoint(r, px, py) ==
    /\ px >= r.x /\ px < r.x + r.w
    /\ py >= r.y /\ py < r.y + r.h

\* screen.get_rect()
boundaries == Rect(0, 0, screen_w, screen_h)

\* Button.__init__: a button_w x button_h rectangle centred on the screen
button_rect ==
    Rect(boundaries.x + boundaries.w \div 2 - button_w \div 2,
         boundaries.y + boundaries.h \div 2 - button_h \div 2,
         button_w, button_h)

(***************************************************************************)
(* Sprites.  An alien is [x, y] (floats); its rect is int(x), int(y).      *)
(* A bullet is [x, y]: rect.x (integer, never changes) and the float y.   *)
(***************************************************************************)
\* Alien.__init__: rect.x = x; rect.y = y; self.x = float(rect.x) ...
Alien(x, y) == [x |-> Float(x), y |-> Float(y)]

\* Alien.rect after Alien.update (rect.x = self.x; rect.y = self.y)
AlienRect(a) == Rect(Trunc(a.x), Trunc(a.y), alien_w, alien_h)

\* Bullet.rect (rect.y = self.y)
BulletRect(b) == Rect(b.x, Trunc(b.y), bullet_w, bullet_h)

\* Ship.rect (rect.x = self.x), bottom-anchored by _center_ship
ShipRect(x) == Rect(Trunc(x), boundaries.y + boundaries.h - ship_h, ship_w, ship_h)

\* Alien.check_edges
check_edges(a) ==
    \/ AlienRect(a).x + AlienRect(a).w >= boundaries.x + boundaries.w
    \/ AlienRect(a).x <= boundaries.x

(***************************************************************************)
(* AlienFleet: building the X formation.                                   *)
(***************************************************************************)
\* a calculate_fleet_size that takes half of the largest grid as it is
calculate_fleet_size_not_odd(aw, sw, ah, sh) ==
    Max(min_fleet_size, Min((sw \div aw) \div 2, (sh \div ah) \div 2))

\* AlienFleet.calculate_fleet_size: the side of the square grid
calculate_fleet_size(aw, sw, ah, sh) ==
    LET max_fleet_w == sw \div aw
        max_fleet_h == sh \div ah
        \* int(max * 0.5)
        half_w == max_fleet_w \div 2
        half_h == max_fleet_h \div 2
        target_w == IF half_w % 2 = 0 THEN half_w - 1 ELSE half_w
        target_h == IF half_h % 2 = 0 THEN half_h - 1 ELSE half_h
        m == Min(target_w, target_h)
        size == IF m % 2 = 0 THEN m - 1 ELSE m
    IN  Max(min_fleet_size, size)

\* a _create_x_fleet that fills one diagonal and then the other
create_x_fleet_two_diagonals(aw, ah, fleet_w, fleet_h, x_offset, y_offset) ==
    [i \in 1..fleet_h |-> Alien((i - 1) * aw + x_offset, (i - 1) * ah + y_offset)]
    \o [i \in 1..fleet_h |->
            Alien((fleet_w - i) * aw + x_offset, (i - 1) * ah + y_offset)]

\* AlienFleet._create_x_fleet: the aliens it creates, in creation order
\* (row by row, column by column)
create_x_fleet(aw, ah, fleet_w, fleet_h, x_offset, y_offset) ==
    LET cells == [k \in 1..(fleet_h * fleet_w) |->
                    [row |-> (k - 1) \div fleet_w, col |-> (k - 1) % fleet_w]]
        onX(c) == c.col = c.row \/ c.col = fleet_w - 1 - c.row
        chosen == SelectSeq(cells, onX)
    IN  [i \in 1..Len(chosen) |->
            Alien(chosen[i].col * aw + x_offset, chosen[i].row * ah + y_offset)]

\* AlienFleet.create_fleet: the side of the grid for the screen and the
\* alien of the settings
fleet_size == calculate_fleet_size(alien_w, screen_w, alien_h, screen_h)

\* AlienFleet.create_fleet: the aliens it creates, centred in the upper
\* half of the screen
x_fleet ==
    LET half_screen == screen_h \div 2
        x_offset == (screen_w - fleet_size * alien_w) \div 2
        y_offset == (half_screen - fleet_size * alien_h) \div 2
    IN  create_x_fleet(alien_w, alien_h, fleet_size, fleet_size, x_offset, y_offset)

\* AlienFleet.create_fleet: adds a fresh X formation to the group g.fleet
\* (the group is not emptied here, and fleet_direction is not touched)
create_fleet(g) == [g EXCEPT !.fleet = @ \o x_fleet]


(***************************************************************************)
(* The game as one record g: the fields of AlienInvasion and of the        *)
(* objects it owns.  The operators below are the methods, as functions     *)
(* from the game before the call to the game after it.                     *)
(***************************************************************************)

\* Settings.initialize_dynamic_settings (the part that changes later)
initialize_dynamic_settings(g) ==
    [g EXCEPT !.ship_speed = Float(start_ship_speed),
              !.bullet_speed = Float(start_bullet_speed),
              !.bullet_amount = start_bullet_amount,
              !.fleet_speed = Float(start_fleet_speed),
              !.alien_points = start_alien_points]

\* v * difficulty_scale
Scaled(v) == (v * difficulty_scale_num) \div difficulty_scale_den

\* an increase_difficulty that forgets the fleet
increase_difficulty_without_fleet(g) ==
    [g EXCEPT !.ship_speed = Scaled(@),
              !.bullet_speed = Scaled(@)]

\* an increase_difficulty that adds a tenth of the starting speed
increase_difficulty_additive(g) ==
    [g EXCEPT !.ship_speed = @ + Float(start_ship_speed) \div difficulty_scale_den,
              !.bullet_speed = @ + Float(start_bullet_speed) \div difficulty_scale_den,
              !.fleet_speed = @ + Float(start_fleet_speed) \div difficulty_scale_den]

\* Settings.increase_difficulty
increase_difficulty(g) ==
    [g EXCEPT !.ship_speed = Scaled(@),
              !.bullet_speed = Scaled(@),
              !.fleet_speed = Scaled(@)]

\* a reset_stats that also forgets the best score of the session
reset_stats_with_max_score(g) ==
    [g EXCEPT !.ships_left = starting_ship_count, !.score = 0, !.level = 1,
              !.max_score = 0]

\* GameStats.reset_stats
reset_stats(g) ==
    [g EXCEPT !.ships_left = starting_ship_count, !.score = 0, !.level = 1]

\* the bullets of a dict of collisions
RECURSIVE BulletCount(_, _)
BulletCount(crashed, k) ==
    IF k > Len(crashed) THEN 0
    ELSE Cardinality(crashed[k].bullets) + BulletCount(crashed, k + 1)

\* an _update_score that pays for every bullet of the dict
update_score_per_bullet(g, crashed) ==
    [g EXCEPT !.score = @ + g.alien_points * BulletCount(crashed, 1)]

\* an _update_score that pays once for a dict that is not empty
update_score_once(g, crashed) ==
    [g EXCEPT !.score = @ + (IF Len(crashed) > 0 THEN g.alien_points ELSE 0)]

\* GameStats._update_score: alien_points for every key of the dict
update_score(g, crashed) ==
    [g EXCEPT !.score = @ + g.alien_points * Len(crashed)]

\* GameStats._update_max_score
update_max_score(g) ==
    IF g.score > g.max_score THEN [g EXCEPT !.max_score = g.score] ELSE g

\* GameStats._update_high_score
update_high_score(g) ==
    IF g.score > g.hi_score THEN [g EXCEPT !.hi_score = g.score] ELSE g

\* an update that leaves the high score alone
GameStats_update_without_high_score(g, crashed) ==
    update_max_score(update_score(g, crashed))

\* GameStats.update
GameStats_update(g, crashed) ==
    update_high_score(update_max_score(update_score(g, crashed)))

\* GameStats.update_level
update_level(g) == [g EXCEPT !.level = @ + 1]

(***************************************************************************)
(* GameStats and the scores file.  A file is [exists, text].               *)
(***************************************************************************)
\* json.dumps({'hi_score': n}, indent=4)
json_dumps(n) == "{\n    \"hi_score\": " \o ToString(n) \o "\n}"

\* the numbers json_loads looks for in a text
Saved == {0, 100}

\* json.loads(text): the exception it raises, or the value: a dict or
\* not, and if a dict, the sequence of its values for the key 'hi_score'
json_loads(text) ==
    IF \E n \in Saved : text = json_dumps(n)
    THEN [raises |-> "none", dict |-> TRUE,
          hi_score |-> << CHOOSE n \in Saved : text = json_dumps(n) >>]
    ELSE IF text = "{}"
    THEN [raises |-> "none", dict |-> TRUE, hi_score |-> << >>]
    ELSE IF text \in {"[]", "null", "5"}
    THEN [raises |-> "none", dict |-> FALSE, hi_score |-> << >>]
    ELSE [raises |-> "JSONDecodeError", dict |-> FALSE, hi_score |-> << >>]

\* GameStats.save_scores for the hi_score hi.  write is what
\* path.write_text does: "ok", or the exception it raises; FileNotFoundError
\* is caught and printed, any other exception leaves the method
save_scores(hi, file, write) ==
    IF write = "ok"
    THEN [raised |-> "none", hi_score |-> hi,
          file |-> [exists |-> TRUE, text |-> json_dumps(hi)]]
    ELSE IF write = "FileNotFoundError"
    THEN [raised |-> "none", hi_score |-> hi, file |-> file]
    ELSE [raised |-> write, hi_score |-> hi, file |-> file]

\* GameStats.init_saved_scores.  big is the value of
\* self.path.stat.__sizeof__() > 40: the size of a bound method object,
\* which is 48 in 64-bit CPython and is the build's to choose; read is
\* what path.read_text does: "ok", or the exception it raises
init_saved_scores(file, big, read, write) ==
    IF file.exists /\ big
    THEN LET scores == json_loads(file.text)
         IN  IF read # "ok"
             THEN [raised |-> read, hi_score |-> 0, file |-> file]
             ELSE IF scores.raises # "none"
             THEN [raised |-> scores.raises, hi_score |-> 0, file |-> file]
             ELSE IF ~scores.dict
             THEN [raised |-> "AttributeError", hi_score |-> 0, file |-> file]
             ELSE [raised |-> "none",
                   hi_score |-> IF scores.hi_score = << >> THEN 0
                                ELSE scores.hi_score[1],
                   file |-> file]
    ELSE save_scores(0, file, write)

(***************************************************************************)
(* Ship and Arsenal.                                                       *)
(***************************************************************************)
\* Ship._center_ship: rect.midbottom = boundaries.midbottom; x = float(rect.x)
center_ship(g) ==
    [g EXCEPT !.ship_x =
        Float(boundaries.x + boundaries.w \div 2 - ship_w \div 2)]

\* an _update_ship_movement that does not look at the edges
update_ship_movement_unguarded(g) ==
    [g EXCEPT !.ship_x = @ + (IF g.moving_right THEN g.ship_speed ELSE 0)
                           - (IF g.moving_left THEN g.ship_speed ELSE 0)]

\* an _update_ship_movement that also moves a ship whose rect is at an edge
update_ship_movement_inclusive(g) ==
    LET rect == ShipRect(g.ship_x)
        right == IF g.moving_right /\ rect.x + rect.w <= boundaries.x + boundaries.w
                 THEN g.ship_speed ELSE 0
        left == IF g.moving_left /\ rect.x >= boundaries.x
                THEN g.ship_speed ELSE 0
    IN  [g EXCEPT !.ship_x = @ + right - left]

\* an _update_ship_movement whose second test reads the rect after the
\* move to the right
update_ship_movement_in_turn(g) ==
    LET rect == ShipRect(g.ship_x)
        right == IF g.moving_right /\ rect.x + rect.w < boundaries.x + boundaries.w
                 THEN g.ship_speed ELSE 0
        left == IF g.moving_left /\ ShipRect(g.ship_x + right).x > boundaries.x
                THEN g.ship_speed ELSE 0
    IN  [g EXCEPT !.ship_x = @ + right - left]

\* Ship._update_ship_movement: both tests read the rect of the frame start
update_ship_movement(g) ==
    LET rect == ShipRect(g.ship_x)
        right == IF g.moving_right /\ rect.x + rect.w < boundaries.x + boundaries.w
                 THEN g.ship_speed ELSE 0
        left == IF g.moving_left /\ rect.x > boundaries.x
                THEN g.ship_speed ELSE 0
    IN  [g EXCEPT !.ship_x = @ + right - left]

\* Bullet.update
Bullet_update(b, speed) == [b EXCEPT !.y = @ - speed]

\* a _remove_bullets_offscreen that looks at the top of the bullet
remove_bullets_offscreen_by_top(g) ==
    LET offscreen(b) == BulletRect(b).y <= 0
        onscreen(b) == ~offscreen(b)
    IN  [g EXCEPT !.arsenal = SelectSeq(@, onscreen),
                  !.culled = SelectSeq(g.arsenal, offscreen)]

\* Arsenal._remove_bullets_offscreen; the bullets it removes are left in
\* g.culled
remove_bullets_offscreen(g) ==
    LET offscreen(b) == BulletRect(b).y + BulletRect(b).h <= 0
        onscreen(b) == ~offscreen(b)
    IN  [g EXCEPT !.arsenal = SelectSeq(@, onscreen),
                  !.culled = SelectSeq(g.arsenal, offscreen)]

\* an update_arsenal that removes the bullets before it moves them
update_arsenal_cull_first(g) ==
    LET c == remove_bullets_offscreen(g)
    IN  [c EXCEPT !.arsenal =
            [i \in 1..Len(@) |-> Bullet_update(@[i], g.bullet_speed)]]

\* Arsenal.update_arsenal
update_arsenal(g) ==
    remove_bullets_offscreen(
        [g EXCEPT !.arsenal =
            [i \in 1..Len(@) |-> Bullet_update(@[i], g.bullet_speed)]])

\* Ship.update
Ship_update(g) == update_arsenal(update_ship_movement(g))

\* Bullet.__init__: rect.midtop = ship.rect.midtop; y = float(rect.y)
Bullet(g) ==
    LET ship == ShipRect(g.ship_x)
    IN  [x |-> (ship.x + ship.w \div 2) - bullet_w \div 2, y |-> Float(ship.y)]

\* Arsenal.fire_bullet / Ship.fire: the value returned
fire_result(g) == Len(g.arsenal) < g.bullet_amount

\* a fire_bullet that admits one bullet too many
fire_bullet_off_by_one(g) ==
    IF Len(g.arsenal) <= g.bullet_amount
    THEN [g EXCEPT !.arsenal = Append(@, Bullet(g))]
    ELSE g

\* Arsenal.fire_bullet / Ship.fire: the game after the call
fire_bullet(g) ==
    IF Len(g.arsenal) < g.bullet_amount
    THEN [g EXCEPT !.arsenal = Append(@, Bullet(g))]
    ELSE g

\* Ship.check_collisions: the value returned,
\* pygame.sprite.spritecollide(ship, fleet, False) is not empty
ship_collides(g) ==
    \E i \in 1..Len(g.fleet) : colliderect(ShipRect(g.ship_x), AlienRect(g.fleet[i]))

\* a check_collisions that only looks
Ship_check_collisions_pure(g) == g

\* Ship.check_collisions: the game after the call
Ship_check_collisions(g) == IF ship_collides(g) THEN center_ship(g) ELSE g

(***************************************************************************)
(* AlienFleet: movement.                                                   *)
(***************************************************************************)
\* AlienFleet._drop_alien_fleet
\* a drop in which only the aliens at an edge go down
drop_alien_fleet_edge_only(g) ==
    [g EXCEPT !.fleet =
        [i \in 1..Len(@) |->
            IF check_edges(@[i])
            THEN [@[i] EXCEPT !.y = @ + Float(g.fleet_drop_speed)]
            ELSE @[i]]]

\* AlienFleet._drop_alien_fleet
drop_alien_fleet(g) ==
    [g EXCEPT !.fleet = [i \in 1..Len(@) |-> [@[i] EXCEPT !.y = @ + Float(g.fleet_drop_speed)]]]

\* a loop that goes on after the first alien at an edge
RECURSIVE check_fleet_edges_no_break(_, _)
check_fleet_edges_no_break(g, i) ==
    IF i > Len(g.fleet) THEN g
    ELSE IF check_edges(g.fleet[i])
         THEN check_fleet_edges_no_break(
                [drop_alien_fleet(g) EXCEPT !.fleet_direction = @ * (-1)], i + 1)
         ELSE check_fleet_edges_no_break(g, i + 1)

\* AlienFleet._check_fleet_edges, from the i-th alien of the group on:
\* the first alien at an edge drops the fleet, reverses it and ends the loop
RECURSIVE check_fleet_edges(_, _)
check_fleet_edges(g, i) ==
    IF i > Len(g.fleet) THEN g
    ELSE IF check_edges(g.fleet[i])
         THEN [drop_alien_fleet(g) EXCEPT !.fleet_direction = @ * (-1)]
         ELSE check_fleet_edges(g, i + 1)

\* Alien.update: x += fleet_speed * fleet_direction (then the rect follows)
Alien_update(a, speed, direction) == [a EXCEPT !.x = @ + speed * direction]

\* an update_fleet that moves the aliens before it looks at the edges
update_fleet_move_first(g) ==
    check_fleet_edges(
        [g EXCEPT !.fleet =
            [i \in 1..Len(@) |-> Alien_update(@[i], g.fleet_speed, g.fleet_direction)]],
        1)

\* an update_fleet that does not move a fleet it has dropped
update_fleet_drop_or_move(g) ==
    LET e == check_fleet_edges(g, 1)
    IN  IF e.fleet_direction # g.fleet_direction THEN e
        ELSE [e EXCEPT !.fleet =
                [i \in 1..Len(@) |->
                    Alien_update(@[i], e.fleet_speed, e.fleet_direction)]]

\* AlienFleet.update_fleet
update_fleet(g) ==
    LET e == check_fleet_edges(g, 1)
    IN  [e EXCEPT !.fleet =
            [i \in 1..Len(@) |-> Alien_update(@[i], e.fleet_speed, e.fleet_direction)]]

(***************************************************************************)
(* AlienFleet.check_collisions: pygame.sprite.groupcollide(fleet, arsenal, *)
(* True, True).  For every alien of the group, in group order,             *)
(* spritecollide(alien, arsenal, True) kills and returns every bullet      *)
(* still in the arsenal whose rect overlaps the alien's; if there is one,  *)
(* the alien is entered in the dict with those bullets and killed.         *)
(*                                                                         *)
(* F, B: the fleet and the arsenal at the call; i: the next alien;         *)
(* R: the indices (in B) of the bullets still in the arsenal; crashed: the *)
(* dict so far, a sequence of [alien |-> index in F, bullets |-> indices   *)
(* in B].                                                                  *)
(***************************************************************************)
\* spritecollide(F[i], arsenal, ...): the bullets of R overlapping alien F[i]
spritecollide(F, B, i, R) ==
    {j \in R : colliderect(AlienRect(F[i]), BulletRect(B[j]))}

\* a groupcollide whose bullets stay in the arsenal until the loop is over
RECURSIVE groupcollide_keep_bullets(_, _, _, _, _)
groupcollide_keep_bullets(F, B, i, R, crashed) ==
    IF i > Len(F) THEN [crashed |-> crashed, R |-> R]
    ELSE LET hit == spritecollide(F, B, i, 1..Len(B))
         IN  IF hit # {}
             THEN groupcollide_keep_bullets(F, B, i + 1, R \ hit,
                      Append(crashed, [alien |-> i, bullets |-> hit]))
             ELSE groupcollide_keep_bullets(F, B, i + 1, R, crashed)

\* pygame.sprite.groupcollide(fleet, arsenal, True, True), from alien i on
RECURSIVE groupcollide(_, _, _, _, _)
groupcollide(F, B, i, R, crashed) ==
    IF i > Len(F) THEN [crashed |-> crashed, R |-> R]
    ELSE LET hit == spritecollide(F, B, i, R)
         IN  IF hit # {}
             THEN groupcollide(F, B, i + 1, R \ hit,
                      Append(crashed, [alien |-> i, bullets |-> hit]))
             ELSE groupcollide(F, B, i + 1, R, crashed)

\* the subsequence of s at the indices in keep
Keep(s, keep) ==
    LET RECURSIVE K(_)
        K(i) == IF i > Len(s) THEN << >>
                ELSE IF i \in keep THEN << s[i] >> \o K(i + 1) ELSE K(i + 1)
    IN  K(1)

\* AlienFleet.check_collisions(arsenal): the game after the call; the dict
\* returned is left in g.collisions, with the sprites in place of indices
AlienFleet_check_collisions(g) ==
    LET F == g.fleet
        B == g.arsenal
        r == groupcollide(F, B, 1, 1..Len(B), << >>)
        dead == {r.crashed[k].alien : k \in 1..Len(r.crashed)}
    IN  [g EXCEPT !.fleet = Keep(F, (1..Len(F)) \ dead),
                  !.arsenal = Keep(B, r.R),
                  !.collisions =
                     [k \in 1..Len(r.crashed) |->
                        [alien |-> F[r.crashed[k].alien],
                         bullets |-> {[id |-> j, x |-> B[j].x, y |-> B[j].y] :
                                        j \in r.crashed[k].bullets}]]]

\* AlienFleet.check_destroyed_status
check_destroyed_status(g) == Len(g.fleet) = 0

\* AlienFleet.check_fleet_bottom
check_fleet_bottom(g) ==
    \E i \in 1..Len(g.fleet) :
        AlienRect(g.fleet[i]).y + AlienRect(g.fleet[i]).h >= screen_h

(***************************************************************************)
(* AlienInvasion.                                                          *)
(***************************************************************************)
\* a _reset_level that leaves the bullets in the arsenal
reset_level_keep_bullets(g) == create_fleet([g EXCEPT !.fleet = << >>])

\* AlienInvasion._reset_level
reset_level(g) == create_fleet([g EXCEPT !.arsenal = << >>, !.fleet = << >>])

\* a _check_game_stats that takes the ship first and ends the game when
\* none is left
check_game_stats_decrement_first(g) ==
    LET d == [g EXCEPT !.ships_left = @ - 1]
    IN  IF d.ships_left > 0
        THEN reset_level(d)
        ELSE [d EXCEPT !.game_active = FALSE]

\* a _check_game_stats that resets the level also when no ship is left
check_game_stats_always_reset(g) ==
    IF g.ships_left > 0
    THEN reset_level([g EXCEPT !.ships_left = @ - 1])
    ELSE reset_level([g EXCEPT !.game_active = FALSE])

\* AlienInvasion._check_game_stats (sleep(0.5) changes nothing)
check_game_stats(g) ==
    IF g.ships_left > 0
    THEN reset_level([g EXCEPT !.ships_left = @ - 1])
    ELSE [g EXCEPT !.game_active = FALSE]

\* AlienInvasion._check_collisions, lines 115-116: the ship against the fleet
check_ship_hit(g) ==
    IF ship_collides(g) THEN check_game_stats(Ship_check_collisions(g)) ELSE g

\* AlienInvasion._check_collisions, lines 117-122: bullets against the fleet
check_bullet_hits(g) ==
    LET a == AlienFleet_check_collisions(g)
        c == [a EXCEPT !.shot = @ + Len(g.fleet) - Len(a.fleet)]
    IN  IF Len(c.collisions) > 0 THEN GameStats_update(c, c.collisions) ELSE c

\* AlienInvasion._check_collisions, lines 124-129: the level is cleared
check_level_cleared(g) ==
    IF check_destroyed_status(g)
    THEN [update_level(increase_difficulty(reset_level(g)))
            EXCEPT !.advances = @ + 1]
    ELSE g

\* AlienInvasion._check_collisions
AlienInvasion_check_collisions(g) ==
    check_level_cleared(check_bullet_hits(check_ship_hit(g)))

\* a _restart_game that leaves the bullets and the fleet as they are
restart_game_without_reset_level(g) ==
    [center_ship(reset_stats(initialize_dynamic_settings(g)))
        EXCEPT !.game_active = TRUE, !.advances = 0, !.shot = 0]

\* a _restart_game that leaves the settings as they are
restart_game_keep_speeds(g) ==
    [center_ship(reset_level(reset_stats(g)))
        EXCEPT !.game_active = TRUE, !.advances = 0, !.shot = 0]

\* AlienInvasion._restart_game
restart_game(g) ==
    [center_ship(reset_level(reset_stats(initialize_dynamic_settings(g))))
        EXCEPT !.game_active = TRUE, !.advances = 0, !.shot = 0]

\* AlienInvasion._check_button_clicked, the mouse at (px, py)
check_button_clicked(g, px, py) ==
    IF collidepoint(button_rect, px, py) THEN restart_game(g) ELSE g

\* the keys the game reads
Keys == {"K_RIGHT", "K_LEFT", "K_SPACE", "K_q", "K_other"}

\* AlienInvasion._check_keydown_events (run only while game_active, see
\* _check_events); K_q saves the scores and leaves the process
check_keydown_events(g, key) ==
    CASE key = "K_RIGHT" -> [g EXCEPT !.moving_right = TRUE]
      [] key = "K_LEFT" -> [g EXCEPT !.moving_left = TRUE]
      [] key = "K_SPACE" -> fire_bullet(g)
      [] key = "K_q" -> [g EXCEPT !.running = FALSE]
      [] OTHER -> g

\* AlienInvasion._check_keyup_events
check_keyup_events(g, key) ==
    CASE key = "K_RIGHT" -> [g EXCEPT !.moving_right = FALSE]
      [] key = "K_LEFT" -> [g EXCEPT !.moving_left = FALSE]
      [] OTHER -> g

\* a loop that updates the game whether it is active or not
run_game_updates_always(g) ==
    AlienInvasion_check_collisions(
        update_fleet(Ship_update(
            [g EXCEPT !.collisions = << >>, !.culled = << >>])))

\* AlienInvasion.run_game, lines 99-102: the updates of one pass of the loop
run_game_updates(g) ==
    IF g.game_active
    THEN AlienInvasion_check_collisions(
            update_fleet(Ship_update(
                [g EXCEPT !.collisions = << >>, !.culled = << >>])))
    ELSE [g EXCEPT !.collisions = << >>, !.culled = << >>]

\* AlienInvasion.__init__: AlienFleet.__init__ copies the drop distance and
\* the direction from the settings and builds the fleet once, and __init__
\* calls create_fleet again on the same group; hi is the hi_score read by
\* GameStats.init_saved_scores.  advances is not a field of the game: it
\* counts the levels cleared since the last _restart_game, and neither is
\* shot, the number of aliens that check_collisions has removed from the
\* fleet since then.  collisions and culled are what the last pass of the
\* loop destroyed and removed.
NewGame(hi) ==
    create_fleet(create_fleet(center_ship(reset_stats(initialize_dynamic_settings(
        [running |-> TRUE, game_active |-> FALSE,
         ship_x |-> 0, moving_right |-> FALSE, moving_left |-> FALSE,
         arsenal |-> << >>,
         fleet |-> << >>, fleet_direction |-> settings_fleet_direction,
         fleet_drop_speed |-> start_fleet_drop_speed,
         ship_speed |-> 0, bullet_speed |-> 0, bullet_amount |-> 0,
         fleet_speed |-> 0, alien_points |-> 0,
         score |-> 0, max_score |-> 0, hi_score |-> hi, level |-> 1,
         ships_left |-> 0,
         collisions |-> << >>, culled |-> << >>, advances |-> 0,
         shot |-> 0])))))

(***************************************************************************)
(* Events (pygame.event) and AlienInvasion._check_events for one event.    *)
(***************************************************************************)
KeyDownEvent(key) == [type |-> "KEYDOWN", key |-> key, px |-> 0, py |-> 0]
KeyUpEvent(key) == [type |-> "KEYUP", key |-> key, px |-> 0, py |-> 0]
MouseEvent(px, py) == [type |-> "MOUSEBUTTONDOWN", key |-> "none", px |-> px, py |-> py]
QuitEvent == [type |-> "QUIT", key |-> "none", px |-> 0, py |-> 0]

\* a _check_events in which a key pressed in a paused game starts it
check_events_key_starts(g, e) ==
    IF e.type = "QUIT" THEN [g EXCEPT !.running = FALSE]
    ELSE IF e.type = "KEYDOWN"
         THEN IF g.game_active THEN check_keydown_events(g, e.key)
              ELSE [g EXCEPT !.game_active = TRUE]
    ELSE IF e.type = "KEYUP" THEN check_keyup_events(g, e.key)
    ELSE IF e.type = "MOUSEBUTTONDOWN" THEN check_button_clicked(g, e.px, e.py)
    ELSE g

\* the body of the loop of AlienInvasion._check_events for the event e
check_events(g, e) ==
    IF e.type = "QUIT" THEN [g EXCEPT !.running = FALSE]
    ELSE IF e.type = "KEYDOWN" /\ g.game_active = TRUE
         THEN check_keydown_events(g, e.key)
    ELSE IF e.type = "KEYUP" THEN check_keyup_events(g, e.key)
    ELSE IF e.type = "MOUSEBUTTONDOWN" THEN check_button_clicked(g, e.px, e.py)
    ELSE g

(***************************************************************************)
(* Played games.  The states the model starts from are states of real      *)
(* games: the game as built by __init__, and the game after a scripted     *)
(* player has played it for some frames: some events, then passes of the   *)
(* game loop, each preceded by a K_SPACE key press if the player fires.    *)
(***************************************************************************)
RECURSIVE RunEvents(_, _, _)
RunEvents(g, es, i) ==
    IF i > Len(es) THEN g ELSE RunEvents(check_events(g, es[i]), es, i + 1)

\* the value of the one element of s
TheOne(s) == CHOOSE v \in s : TRUE

\* n passes of AlienInvasion.run_game's loop (halving keeps the evaluation
\* shallow; a bound variable holds a computed value)
RECURSIVE RunFrames(_, _, _)
RunFrames(g, n, fire) ==
    IF n = 0 THEN g
    ELSE IF n = 1
         THEN TheOne({run_game_updates(
                        IF fire THEN check_events(h, KeyDownEvent("K_SPACE")) ELSE h) :
                      h \in {g}})
         ELSE TheOne({RunFrames(h, n - n \div 2, fire) :
                      h \in {RunFrames(g, n \div 2, fire)}})

\* a click on the middle of the Play button
PlayClick == MouseEvent(screen_w \div 2, screen_h \div 2)

\* the games a script passes through after stops[i], stops[i+1], ... frames
\* of its last segment (g: the game after t frames of it)
RECURSIVE Stops(_, _, _, _, _)
Stops(g, t, fire, stops, i) ==
    IF i > Len(stops) THEN {}
    ELSE UNION {{h} \cup Stops(h, stops[i], fire, stops, i + 1) :
                h \in {RunFrames(g, stops[i] - t, fire)}}

\* the idle player: clicks Play and then touches nothing.  The fleet
\* reaches the right edge after 77 frames and the left edge after 231;
\* it reaches the ship in frames 1020 and 2041 (a ship lost each time)
\* and in frame 3061 (no ship left).
IdleStops == << 77, 231, 1019, 2040, 3060 >>

IdleGames(hi) ==
    Stops(check_events(NewGame(hi), PlayClick), 0, FALSE, IdleStops, 1)

\* the firing player: clicks Play, holds K_LEFT for LeftFrames frames,
\* and presses K_SPACE before every frame.  The stops are one frame
\* before: a first alien shot (50), two aliens shot in one frame by three
\* bullets, one of them over both aliens (294), two aliens shot (307),
\* a bullet that met no alien removed at the top of the screen (412),
\* one alien alone at an edge (442), the last alien of level 1 shot (611),
\* a reversal and a hit in one frame (682), the last aliens of level 2
\* shot (1030).
LeftFrames == 49
FiringStops == << 293, 306, 411, 441, 610, 681, 1029 >>

FiringStart(g) ==
    RunFrames(RunEvents(g, << PlayClick, KeyDownEvent("K_LEFT") >>, 1),
              LeftFrames, TRUE)

FiringGames(hi) ==
    UNION {{g} \cup Stops(check_events(g, KeyUpEvent("K_LEFT")), LeftFrames,
                          TRUE, FiringStops, 1) :
           g \in {FiringStart(NewGame(hi))}}

\* the firing player who clicks Play again after RestartAfter frames of
\* the first game, one frame before the first alien of the second is shot
RestartAfter == 307

SecondGames(hi) ==
    {FiringStart(RunFrames(check_events(g, KeyUpEvent("K_LEFT")),
                           RestartAfter - LeftFrames, TRUE)) :
     g \in {FiringStart(NewGame(hi))}}

\* the firing player who, when level 1 is cleared (after frames passes),
\* stops firing and holds K_RIGHT for right passes: the ship, at speed
\* 5.5 from x = 215, is one move from the right edge of the screen
RightScript == [frames |-> 611, right |-> 128]

RightGames(hi) ==
    {RunFrames(
        check_events(
            RunFrames(check_events(g, KeyUpEvent("K_LEFT")),
                      RightScript.frames - LeftFrames, TRUE),
            KeyDownEvent("K_RIGHT")),
        RightScript.right, FALSE) :
     g \in {FiringStart(NewGame(hi))}}

\* a hi_score found in the scores file by GameStats.init_saved_scores
SavedHiScore == 100

\* the firing player who starts with a saved hi_score, one frame before
\* the first alien is shot
SavedGames == {FiringStart(NewGame(SavedHiScore))}

\* the dodging player: stays in the middle and presses K_SPACE after
\* these numbers of frames, which shoots the nine aliens of the inner
\* columns (the last one in frame 762) and leaves the four of the first
\* and the last column, and from the last shot on steers to stay between
\* these two columns
DodgerShots == << 28, 117, 189, 271, 361, 439, 522, 593, 724 >>

\* the frames the dodging player plays: in the next one the fleet drops
\* for the sixteenth time
DodgerFrames == 2387

RECURSIVE Shoot(_, _, _)
Shoot(g, t, i) ==
    IF i > Len(DodgerShots) THEN g
    ELSE TheOne({Shoot(check_events(h, KeyDownEvent("K_SPACE")),
                       DodgerShots[i], i + 1) :
                 h \in {RunFrames(g, DodgerShots[i] - t, FALSE)}})

\* the smallest x of the aliens of fleet F
LeftMost(F) ==
    CHOOSE x \in {F[i].x : i \in 1..Len(F)} : \A j \in 1..Len(F) : x <= F[j].x

\* the events of the dodging player before a frame: K_RIGHT is held
\* while the ship is a move or more to the left of the middle between
\* the first and the last column of the fleet, K_LEFT while it is a move
\* or more to the right of it
Steer(g) ==
    LET middle == LeftMost(g.fleet) + Float(alien_w)
                    + (Float(alien_w * (fleet_size - 2)) - Float(ship_w)) \div 2
        right == middle - g.ship_x >= g.ship_speed
        left == g.ship_x - middle >= g.ship_speed
        r == IF right = g.moving_right THEN g
             ELSE check_events(g, IF right THEN KeyDownEvent("K_RIGHT")
                                  ELSE KeyUpEvent("K_RIGHT"))
    IN  IF left = r.moving_left THEN r
        ELSE check_events(r, IF left THEN KeyDownEvent("K_LEFT")
                             ELSE KeyUpEvent("K_LEFT"))

\* n passes of the loop with the dodging player's events
RECURSIVE Dodge(_, _)
Dodge(g, n) ==
    IF n = 0 THEN g
    ELSE IF n = 1
         THEN TheOne({run_game_updates(Steer(h)) : h \in {g}})
         ELSE TheOne({Dodge(h, n - n \div 2) : h \in {Dodge(g, n \div 2)}})

DodgingGames(hi) ==
    {Dodge(g, DodgerFrames - DodgerShots[Len(DodgerShots)]) :
     g \in {Shoot(check_events(NewGame(hi), PlayClick), 0, 1)}}

\* a firing player who holds K_LEFT for the first 50 frames (the ship
\* stops at x = 210), has cleared the first level after 618 frames, and
\* then holds K_LEFT again, without firing, for 38 frames, which leave
\* the ship at x = 1.0: one more move takes it to -4.5
LeftScript == [held |-> 50, frames |-> 618, left |-> 38]

LeftGames(hi) ==
    {RunFrames(
        check_events(
            RunFrames(
                check_events(
                    RunFrames(RunEvents(g, << PlayClick, KeyDownEvent("K_LEFT") >>, 1),
                              LeftScript.held, TRUE),
                    KeyUpEvent("K_LEFT")),
                LeftScript.frames - LeftScript.held, TRUE),
            KeyDownEvent("K_LEFT")),
        LeftScript.left, FALSE) :
     g \in {NewGame(hi)}}

\* the games the model starts from
StartGames ==
    {NewGame(0), NewGame(SavedHiScore)} \cup IdleGames(0) \cup FiringGames(0)
        \cup SecondGames(0) \cup RightGames(0) \cup SavedGames
        \cup DodgingGames(0) \cup LeftGames(0)

(***************************************************************************)
(* The state: the fields of the game, the number of levels cleared and of  *)
(* aliens shot since the last restart (advances, shot), the number of      *)
(* passes of the game loop made                                            *)
(* since the start state (frames), and a call of a method on arguments of  *)
(* its own (call), which the game loop leaves alone.                       *)
(***************************************************************************)
VARIABLES running, game_active, ship_x, moving_right, moving_left, arsenal,
          fleet, fleet_direction, fleet_drop_speed,
          ship_speed, bullet_speed, bullet_amount, fleet_speed, alien_points,
          score, max_score, hi_score, level, ships_left, collisions, culled,
          advances, shot, frames, call

vars == << running, game_active, ship_x, moving_right, moving_left, arsenal,
           fleet, fleet_direction, fleet_drop_speed,
           ship_speed, bullet_speed, bullet_amount, fleet_speed, alien_points,
           score, max_score, hi_score, level, ships_left, collisions, culled,
           advances, shot, frames, call >>

\* the game of the current state
Game ==
    [running |-> running, game_active |-> game_active,
     ship_x |-> ship_x, moving_right |-> moving_right, moving_left |-> moving_left,
     arsenal |-> arsenal,
     fleet |-> fleet, fleet_direction |-> fleet_direction,
     fleet_drop_speed |-> fleet_drop_speed,
     ship_speed |-> ship_speed, bullet_speed |-> bullet_speed,
     bullet_amount |-> bullet_amount,
     fleet_speed |-> fleet_speed, alien_points |-> alien_points,
     score |-> score, max_score |-> max_score, hi_score |-> hi_score,
     level |-> level, ships_left |-> ships_left,
     collisions |-> collisions, culled |-> culled, advances |-> advances,
     shot |-> shot]

\* the game of the current state is g
Is(g) ==
    /\ running = g.running /\ game_active = g.game_active
    /\ ship_x = g.ship_x /\ moving_right = g.moving_right
    /\ moving_left = g.moving_left /\ arsenal = g.arsenal
    /\ fleet = g.fleet /\ fleet_direction = g.fleet_direction
    /\ fleet_drop_speed = g.fleet_drop_speed
    /\ ship_speed = g.ship_speed /\ bullet_speed = g.bullet_speed
    /\ bullet_amount = g.bullet_amount
    /\ fleet_speed = g.fleet_speed /\ alien_points = g.alien_points
    /\ score = g.score /\ max_score = g.max_score /\ hi_score = g.hi_score
    /\ level = g.level /\ ships_left = g.ships_left
    /\ collisions = g.collisions /\ culled = g.culled
    /\ advances = g.advances /\ shot = g.shot

\* the game of the next state is g
Becomes(g) ==
    /\ running' = g.running /\ game_active' = g.game_active
    /\ ship_x' = g.ship_x /\ moving_right' = g.moving_right
    /\ moving_left' = g.moving_left /\ arsenal' = g.arsenal
    /\ fleet' = g.fleet /\ fleet_direction' = g.fleet_direction
    /\ fleet_drop_speed' = g.fleet_drop_speed
    /\ ship_speed' = g.ship_speed /\ bullet_speed' = g.bullet_speed
    /\ bullet_amount' = g.bullet_amount
    /\ fleet_speed' = g.fleet_speed /\ alien_points' = g.alien_points
    /\ score' = g.score /\ max_score' = g.max_score /\ hi_score' = g.hi_score
    /\ level' = g.level /\ ships_left' = g.ships_left
    /\ collisions' = g.collisions /\ culled' = g.culled
    /\ advances' = g.advances /\ shot' = g.shot

\* no method is called on arguments of its own
NoCall == [fn |-> "none"]

Init ==
    /\ \E g \in StartGames : Is(g)
    /\ frames = 0
    /\ call = NoCall

\* the points a mouse click is tried at: the corners of the Play button
\* (the top left one is inside, the bottom right one outside), its centre
\* and the top left corner of the screen
ClickPoints ==
    { << button_rect.x, button_rect.y >>,
      << button_rect.x + button_rect.w, button_rect.y + button_rect.h >>,
      << screen_w \div 2, screen_h \div 2 >>,
      << 0, 0 >> }

\* _check_events handles a KEYDOWN event
KeyDown(key) ==
    /\ running
    /\ Becomes(check_events(Game, KeyDownEvent(key)))
    /\ UNCHANGED << frames, call >>

\* _check_events handles a KEYUP event
KeyUp(key) ==
    /\ running
    /\ Becomes(check_events(Game, KeyUpEvent(key)))
    /\ UNCHANGED << frames, call >>

\* _check_events handles a MOUSEBUTTONDOWN event
MouseButtonDown(p) ==
    /\ running
    /\ Becomes(check_events(Game, MouseEvent(p[1], p[2])))
    /\ UNCHANGED << frames, call >>

\* _check_events handles a QUIT event
Quit ==
    /\ running
    /\ Becomes(check_events(Game, QuitEvent))
    /\ UNCHANGED << frames, call >>

\* one pass of the loop of run_game after its events: the updates
Frame ==
    /\ running
    /\ frames < MaxFrames
    /\ \E g \in {run_game_updates(Game)} : g.level <= MaxLevel /\ Becomes(g)
    /\ frames' = frames + 1
    /\ UNCHANGED call

Next ==
    \/ \E key \in Keys : KeyDown(key)
    \/ \E key \in Keys : KeyUp(key)
    \/ \E p \in ClickPoints : MouseButtonDown(p)
    \/ Quit
    \/ Frame

Spec == Init /\ [][Next]_vars

(***************************************************************************)
(* Calls of methods on arguments of their own.  The game plays on one      *)
(* screen with one size of alien and fires every bullet from the ship's    *)
(* top; here _create_x_fleet and calculate_fleet_size are called on other  *)
(* grids and sizes, and update_arsenal is followed on one bullet from the  *)
(* first pass of the loop after it was fired to the pass that removes it.  *)
(* The game itself stays as __init__ built it.                             *)
(***************************************************************************)
\* the largest grid _create_x_fleet is called on
MaxGrid == 9

\* widths and heights of an alien, of a screen; offsets of the formation
AlienDims == {1, 40, 55, 64}
ScreenDims == {1, 55, 300, 385, 770, 800, 1000, 1920}
Offsets == {-20, 0, 7, 307}

\* settings.bullet_speed in level l
BulletSpeedAt(l) ==
    (Float(start_bullet_speed) * Pow(difficulty_scale_num, l - 1))
        \div Pow(difficulty_scale_den, l - 1)

\* rect.y of a bullet when it is fired: the ship's top, where Bullet.__init__
\* puts it, and 770
BulletTops == {ShipRect(0).y, 770}

CreateXFleetCalls ==
    {[fn |-> "create_x_fleet", done |-> FALSE,
      args |-> [alien_w |-> aw, alien_h |-> ah, fleet_w |-> n, fleet_h |-> n,
                x_offset |-> xo, y_offset |-> yo]] :
     aw \in AlienDims, ah \in AlienDims, n \in 1..MaxGrid,
     xo \in Offsets, yo \in Offsets}

CalculateFleetSizeCalls ==
    {[fn |-> "calculate_fleet_size", done |-> FALSE,
      args |-> [alien_w |-> aw, screen_w |-> sw, alien_h |-> ah, screen_h |-> sh]] :
     aw \in AlienDims, sw \in ScreenDims, ah \in AlienDims, sh \in ScreenDims}

UpdateArsenalCalls ==
    {[fn |-> "update_arsenal", done |-> FALSE,
      args |-> [y |-> y, bullet_speed |-> BulletSpeedAt(l)],
      arsenal |-> << [x |-> Bullet(NewGame(0)).x, y |-> Float(y)] >>,
      n |-> 0] :
     y \in BulletTops, l \in 1..MaxLevel}

\* the most passes of the loop _update_ship_movement is followed for
MaxAdvances == 100

\* settings.ship_speed in level l
ShipSpeedAt(l) ==
    (Float(start_ship_speed) * Pow(difficulty_scale_num, l - 1))
        \div Pow(difficulty_scale_den, l - 1)

\* places of the ship, << level, 100 * x >>: in level 1 (speed 5, from the
\* middle, 460) the edges 0 and 920, one move before the right edge and
\* the middle; in level 2 (speed 5.5) 0.5 and 924.5, where a ship that
\* was at 215 when the level began stops, 919, one move before, the
\* middle, 3.5 and -2, where a ship that was in the middle stops on the
\* left, and 920, where a ship that was at 425 stops; in level 3 (speed
\* 6.05, from the middle) 0.2, 919.8 and 925.85
ShipPlaces ==
    {<< 1, 0 >>, << 1, 46000 >>, << 1, 91500 >>, << 1, 92000 >>,
     << 2, 50 >>, << 2, 350 >>, << 2, -200 >>, << 2, 46000 >>,
     << 2, 91900 >>, << 2, 92000 >>, << 2, 92450 >>,
     << 3, 20 >>, << 3, 91980 >>, << 3, 92585 >>}

UpdateShipMovementCalls ==
    {[fn |-> "update_ship_movement", done |-> FALSE,
      args |-> [x |-> (p[2] * Unit) \div 100, ship_speed |-> ShipSpeedAt(p[1]),
                moving_right |-> r, moving_left |-> l],
      x |-> (p[2] * Unit) \div 100,
      n |-> 0] :
     p \in ShipPlaces, r \in BOOLEAN, l \in BOOLEAN}

\* scores files: none, an empty one, texts that are no JSON, JSON texts
\* that are no object, objects without and with a hi_score
ScoreFiles ==
    {[exists |-> FALSE, text |-> ""]}
    \cup {[exists |-> TRUE, text |-> t] :
            t \in {"", "{", "hi_score", "[]", "null", "{}"}
                    \cup {json_dumps(n) : n \in Saved}}

\* what path.read_text and path.write_text do
Reads == {"ok", "PermissionError"}
Writes == {"ok", "FileNotFoundError", "PermissionError"}

InitSavedScoresCalls ==
    {[fn |-> "init_saved_scores", done |-> FALSE,
      args |-> [file |-> f, big |-> b, read |-> r, write |-> w]] :
     f \in ScoreFiles, b \in BOOLEAN, r \in Reads, w \in Writes}

CallInit ==
    /\ Is(NewGame(0))
    /\ frames = 0
    /\ call \in CreateXFleetCalls \cup CalculateFleetSizeCalls
                    \cup UpdateArsenalCalls \cup UpdateShipMovementCalls
                    \cup InitSavedScoresCalls

\* the game, which a call leaves alone
game_vars ==
    << running, game_active, ship_x, moving_right, moving_left, arsenal,
       fleet, fleet_direction, fleet_drop_speed,
       ship_speed, bullet_speed, bullet_amount, fleet_speed, alien_points,
       score, max_score, hi_score, level, ships_left, collisions, culled,
       advances, shot, frames >>

\* AlienFleet._create_x_fleet on the arguments of the call
CreateXFleet ==
    /\ call.fn = "create_x_fleet" /\ ~call.done
    /\ call' = [fn |-> call.fn, done |-> TRUE, args |-> call.args,
                result |-> create_x_fleet(call.args.alien_w, call.args.alien_h,
                                          call.args.fleet_w, call.args.fleet_h,
                                          call.args.x_offset, call.args.y_offset)]
    /\ UNCHANGED game_vars

\* AlienFleet.calculate_fleet_size on the arguments of the call
CalculateFleetSize ==
    /\ call.fn = "calculate_fleet_size" /\ ~call.done
    /\ call' = [fn |-> call.fn, done |-> TRUE, args |-> call.args,
                result |-> calculate_fleet_size(call.args.alien_w, call.args.screen_w,
                                                call.args.alien_h, call.args.screen_h)]
    /\ UNCHANGED game_vars

\* Arsenal.update_arsenal, once, on the bullet of the call
UpdateArsenal ==
    /\ call.fn = "update_arsenal" /\ ~call.done
    /\ LET after == update_arsenal([Game EXCEPT !.arsenal = call.arsenal,
                                                !.bullet_speed = call.args.bullet_speed])
       IN  call' = [call EXCEPT !.arsenal = after.arsenal,
                                !.n = @ + 1,
                                !.done = after.arsenal = << >>]
    /\ UNCHANGED game_vars

\* Ship._update_ship_movement, once, on the ship of the call
UpdateShipMovement ==
    /\ call.fn = "update_ship_movement" /\ ~call.done
    /\ LET after == update_ship_movement(
                        [Game EXCEPT !.ship_x = call.x,
                                     !.ship_speed = call.args.ship_speed,
                                     !.moving_right = call.args.moving_right,
                                     !.moving_left = call.args.moving_left])
       IN  call' = [call EXCEPT !.x = after.ship_x,
                                !.n = @ + 1,
                                !.done = call.n + 1 >= MaxAdvances]
    /\ UNCHANGED game_vars

\* GameStats.init_saved_scores on the file of the call
InitSavedScores ==
    /\ call.fn = "init_saved_scores" /\ ~call.done
    /\ call' = [fn |-> call.fn, done |-> TRUE, args |-> call.args,
                result |-> init_saved_scores(call.args.file, call.args.big,
                                             call.args.read,
                                             call.args.write)]
    /\ UNCHANGED game_vars

CallNext ==
    \/ CreateXFleet
    \/ CalculateFleetSize
    \/ UpdateArsenal
    \/ UpdateShipMovement
    \/ InitSavedScores

CallSpec == CallInit /\ [][CallNext]_vars

(***************************************************************************)
(* Properties.                                                             *)
(***************************************************************************)
\* the step is a pass of the game loop
FrameStep == frames' = frames + 1

\* the step is a pass of the game loop made while the game is active
ActiveFrame == FrameStep /\ game_active

\* the game after Ship.update and AlienFleet.update_fleet of this frame,
\* as _check_collisions finds it
Moved == update_fleet(Ship_update(Game))

\* the step has rebuilt the fleet (a ship was lost or the level was cleared)
Rebuilt == ships_left' # ships_left \/ level' # level

\* some alien of the fleet is at an edge
AnyAtEdge == \E i \in 1..Len(fleet) : check_edges(fleet[i])

\* alien a as it was before the last Alien.update
BeforeUpdate(a) == [a EXCEPT !.x = @ - fleet_speed * fleet_direction]

\* C1: one update_fleet makes at most one reversal.  If an alien is at an
\* edge when an active frame starts, the direction is negated once and
\* every alien's y grows by the drop distance once, however many aliens
\* are at an edge; otherwise the direction and every y stay as they are.
C1_SingleReversal ==
    [][ActiveFrame =>
        LET drop == IF AnyAtEdge THEN Float(fleet_drop_speed) ELSE 0
            u == update_fleet(Game).fleet
        IN  /\ fleet_direction' =
                 IF AnyAtEdge THEN -fleet_direction ELSE fleet_direction
            /\ Len(u) = Len(fleet)
            /\ \A i \in 1..Len(fleet) : u[i].y = fleet[i].y + drop
            /\ ~Rebuilt =>
                 \A j \in 1..Len(fleet') : \E i \in 1..Len(fleet) :
                    fleet'[j].y = fleet[i].y + drop
      ]_vars

\* a frame has reversed a fleet of which two aliens were at an edge
C1_Witness ==
    /\ frames > 0
    /\ \E i, j \in 1..Len(fleet) :
          /\ i # j
          /\ check_edges(BeforeUpdate(fleet[i]))
          /\ check_edges(BeforeUpdate(fleet[j]))
          /\ ~check_edges(fleet[i])

\* C2: drop before move.  In a frame that starts with an alien at an edge,
\* every alien's new y is its old y plus the drop distance and its new x
\* is its old x plus fleet_speed times the new direction, the negated one.
C2_DropBeforeMove ==
    [][ActiveFrame /\ AnyAtEdge =>
        LET new(a) == [x |-> a.x + fleet_speed * (-fleet_direction),
                       y |-> a.y + Float(fleet_drop_speed)]
        IN  /\ update_fleet(Game).fleet = [i \in 1..Len(fleet) |-> new(fleet[i])]
            /\ ~Rebuilt =>
                 \A j \in 1..Len(fleet') : \E i \in 1..Len(fleet) :
                    fleet'[j] = new(fleet[i])
      ]_vars

\* a frame has moved an alien away from the right edge it was at
C2_Witness ==
    /\ frames > 0
    /\ fleet_direction = -1
    /\ \E i \in 1..Len(fleet) :
          LET old == AlienRect(BeforeUpdate(fleet[i]))
              now == AlienRect(fleet[i])
          IN  /\ old.x + old.w >= screen_w
              /\ now.x + now.w < old.x + old.w

\* the formation create_fleet builds in an empty group
FreshFleet == create_fleet([fleet |-> << >>]).fleet

\* in this frame the ship's rect meets an alien's at _check_collisions
Hit == ship_collides(Moved)

\* C3, as claimed: every active frame in which the ship meets an alien
\* takes one ship; if ships are left after it the level is reset and the
\* game stays active, and if none is left the game is paused in that
\* frame, so that no frame ends with an active game and no ship left.
C3_AsClaimed ==
    [][ActiveFrame /\ Hit =>
        /\ ships_left' = ships_left - 1
        /\ ships_left' > 0 =>
             game_active' /\ arsenal' = << >> /\ fleet' = FreshFleet
        /\ ships_left' = 0 => ~game_active'
      ]_vars

\* C3, amended: an active frame in which the ship meets an alien takes one
\* ship, resets the level and leaves the game active if ships_left > 0
\* before the frame, also when it takes the last one; if ships_left = 0
\* before the frame it leaves ships_left at 0 and pauses the game.
C3_LifeLoss ==
    [][ActiveFrame /\ Hit =>
        IF ships_left > 0
        THEN /\ ships_left' = ships_left - 1
             /\ game_active'
             /\ arsenal' = << >>
             /\ fleet' = FreshFleet
        ELSE /\ ships_left' = ships_left
             /\ ~game_active'
      ]_vars

\* a frame has taken the last ship and the game goes on with a new fleet
C3_Witness ==
    /\ frames > 0
    /\ game_active
    /\ ships_left = 0
    /\ arsenal = << >>
    /\ fleet = FreshFleet
    /\ ship_x = center_ship(Game).ship_x

\* the ids of the bullets of the k-th entry of the dict of collisions
BulletIds(k) == {b.id : b \in collisions[k].bullets}

\* no bullet is in two entries of the dict of collisions
BulletsDisjoint ==
    \A k1, k2 \in 1..Len(collisions) :
        k1 # k2 => BulletIds(k1) \cap BulletIds(k2) = {}

\* the aliens and the bullets of the dict of collisions are in no group
DestroyedGone ==
    \A k \in 1..Len(collisions) :
        /\ \A i \in 1..Len(fleet) : fleet[i] # collisions[k].alien
        /\ \A b \in collisions[k].bullets : \A i \in 1..Len(arsenal) :
              arsenal[i] # [x |-> b.x, y |-> b.y]

\* C4: in one check_collisions a bullet destroys at most one alien, also
\* when it overlaps several, and the destroyed bullets and aliens are
\* removed from the arsenal and from the fleet.
C4_BulletHitsOneAlien ==
    [][FrameStep => BulletsDisjoint' /\ DestroyedGone']_vars

\* the aliens, destroyed or not, that the rect of bullet b overlaps
Overlapped(b) ==
    {collisions[k].alien : k \in {n \in 1..Len(collisions) :
        colliderect(AlienRect(collisions[n].alien), BulletRect(b))}}
    \cup {fleet[i] : i \in {n \in 1..Len(fleet) :
        colliderect(AlienRect(fleet[n]), BulletRect(b))}}

\* a destroyed bullet overlapped two aliens
C4_Witness ==
    /\ frames > 0
    /\ \E k \in 1..Len(collisions) : \E b \in collisions[k].bullets :
          Cardinality(Overlapped(b)) >= 2

\* C5, as claimed: in one check_collisions an alien destroys at most one
\* bullet, so as many bullets as aliens are removed.
C5_AsClaimed ==
    \A k \in 1..Len(collisions) : Cardinality(collisions[k].bullets) <= 1

\* the events of n presses of K_SPACE
Presses(n) == [i \in 1..n |-> KeyDownEvent("K_SPACE")]

\* C6: the arsenal never holds more than bullet_amount bullets; a K_SPACE
\* press in an active game adds one bullet at the ship's midtop and
\* returns True if fewer are live, and changes nothing and returns False
\* otherwise; bullet_amount + 1 presses on an empty arsenal before any
\* frame leave bullet_amount bullets.
C6_CapEnforced ==
    /\ [](/\ Len(arsenal) <= bullet_amount
          /\ game_active /\ arsenal = << >> =>
               Len(RunEvents(Game, Presses(bullet_amount + 1), 1).arsenal)
                  = bullet_amount)
    /\ [][KeyDown("K_SPACE") =>
            IF game_active /\ Len(arsenal) < bullet_amount
            THEN /\ fire_result(Game)
                 /\ Len(arsenal') = Len(arsenal) + 1
                 /\ SubSeq(arsenal', 1, Len(arsenal)) = arsenal
                 /\ LET new == BulletRect(arsenal'[Len(arsenal')])
                        ship == ShipRect(ship_x)
                    IN  /\ new.y = ship.y
                        /\ new.x + new.w \div 2 = ship.x + ship.w \div 2
                        /\ arsenal'[Len(arsenal')].y = Float(new.y)
            ELSE /\ game_active => ~fire_result(Game)
                 /\ arsenal' = arsenal
         ]_vars

\* bullet_amount bullets were fired in one pass of the loop and all are live
C6_Witness ==
    /\ game_active
    /\ Len(arsenal) = bullet_amount
    /\ \A i \in 1..Len(arsenal) : arsenal[i] = Bullet(Game)

\* the frame destroys every alien the fleet had
Cleared == ships_left' = ships_left /\ Len(collisions') = Len(fleet)

\* C7: an active frame that finds the fleet empty clears the bullets,
\* builds the whole formation (13 aliens in the 7 x 7 grid), multiplies
\* each of the three speeds by the difficulty scale once and adds 1 to
\* the level; a frame that finds aliens left changes no speed and no level.
C7_LevelAdvance ==
    [][ActiveFrame =>
        IF Cleared
        THEN /\ arsenal' = << >>
             /\ fleet' = FreshFleet
             /\ Len(fleet') =
                  2 * calculate_fleet_size(alien_w, screen_w, alien_h, screen_h) - 1
             /\ ship_speed' * difficulty_scale_den = ship_speed * difficulty_scale_num
             /\ bullet_speed' * difficulty_scale_den = bullet_speed * difficulty_scale_num
             /\ fleet_speed' * difficulty_scale_den = fleet_speed * difficulty_scale_num
             /\ level' = level + 1
        ELSE /\ level' = level
             /\ ship_speed' = ship_speed
             /\ bullet_speed' = bullet_speed
             /\ fleet_speed' = fleet_speed
      ]_vars

\* a frame has shot the last alien of level 1
C7_Witness ==
    /\ frames > 0
    /\ level = 2
    /\ Len(collisions) > 0
    /\ fleet = FreshFleet
    /\ Len(fleet) = 13
    /\ arsenal = << >>
    /\ fleet_speed * difficulty_scale_den = Float(start_fleet_speed) * difficulty_scale_num

\* C8: after k cleared levels of one game each speed is its starting value
\* times difficulty_scale^k, whatever ships were lost in between, and the
\* bullet limit, the drop distance and the points per alien are the
\* starting ones.
C8_Compounding ==
    LET d == Pow(difficulty_scale_den, advances)
        n == Pow(difficulty_scale_num, advances)
    IN  /\ ship_speed * d = Float(start_ship_speed) * n
        /\ bullet_speed * d = Float(start_bullet_speed) * n
        /\ fleet_speed * d = Float(start_fleet_speed) * n
        /\ bullet_amount = start_bullet_amount
        /\ fleet_drop_speed = start_fleet_drop_speed
        /\ alien_points = start_alien_points

\* two levels of one game have been cleared
C8_Witness ==
    /\ frames > 0
    /\ advances = 2
    /\ level = 3
    /\ ship_speed = Scaled(Scaled(Float(start_ship_speed)))

\* C9: an active frame adds alien_points to the score for every alien its
\* bullets destroy, once per alien however many bullets hit it, and then
\* max_score and hi_score are the larger of their old value and the score.
C9_Scoring ==
    [][ActiveFrame =>
        LET destroyed == IF ships_left' # ships_left THEN 0
                         ELSE IF level' # level THEN Len(fleet)
                         ELSE Len(fleet) - Len(fleet')
        IN  /\ Len(collisions') = destroyed
            /\ score' = score + alien_points * destroyed
            /\ max_score' = Max(max_score, score')
            /\ hi_score' = Max(hi_score, score')
      ]_vars

\* a frame has destroyed two aliens, one of them with several bullets
C9_Witness ==
    /\ frames > 0
    /\ Len(collisions) >= 2
    /\ \E k \in 1..Len(collisions) : Cardinality(collisions[k].bullets) >= 2
    /\ score >= 2 * alien_points
    /\ max_score = score

\* C10: max_score and hi_score never decrease, whatever happens: frames,
\* hits, lost ships, cleared levels, the end of a game, a restart.
C10_ScoresMonotonic ==
    [][max_score' >= max_score /\ hi_score' >= hi_score]_vars

\* a game has been restarted after points were scored
C10_Witness ==
    /\ game_active
    /\ score = 0
    /\ max_score > 0
    /\ hi_score >= max_score
    /\ ships_left = starting_ship_count
    /\ fleet = FreshFleet

\* C11: whenever GameStats.update has run, and so at the end of every pass
\* of the loop and after every event, the score is at most max_score and
\* at most hi_score, whatever hi_score >= 0 was read from the scores file
\* and also after a restart has set the score to 0.
C11_ScoresDominate ==
    /\ hi_score >= score
    /\ max_score >= score

\* a frame has scored in a game that started with a saved hi_score, and
\* GameStats.update has raised max_score and left the larger hi_score
C11_Witness ==
    /\ frames > 0
    /\ Len(collisions) > 0
    /\ score > 0
    /\ max_score = score
    /\ hi_score > score

\* C12, as claimed: the ship's rect is inside the screen horizontally in
\* every state, at every ship speed the levels give.
C12_AsClaimed ==
    /\ ShipRect(ship_x).x >= boundaries.x
    /\ ShipRect(ship_x).x + ShipRect(ship_x).w <= boundaries.x + boundaries.w

\* the step is a click on the Play button: _restart_game
Restart ==
    /\ running
    /\ frames' = frames
    /\ \E g \in {check_events(Game, PlayClick)} : Becomes(g)

\* the step has called _reset_level: a ship was lost, the level was
\* cleared, or the game was restarted
FleetReset == (FrameStep /\ Rebuilt) \/ Restart

\* C13, as claimed: after every reset of the fleet (lost ship, cleared
\* level, restart) the fleet direction is the one of the settings, +1,
\* whatever it was before.
C13_AsClaimed ==
    [][FleetReset => fleet_direction' = settings_fleet_direction]_vars

\* the game is as AlienInvasion.__init__ built it
Constructed == Game = NewGame(hi_score)

\* the fleet is the X formation of the grid and nothing else: 2N - 1
\* aliens, no two of them at the same place
ExactFormation ==
    /\ fleet = FreshFleet
    /\ Len(fleet) =
          2 * calculate_fleet_size(alien_w, screen_w, alien_h, screen_h) - 1
    /\ \A i, j \in 1..Len(fleet) : i # j => fleet[i] # fleet[j]

\* C14, as claimed: after the construction of the game and after every
\* reset of the fleet (lost ship, cleared level, restart) the fleet is
\* exactly the 2N - 1 aliens of the X formation, with no alien left from
\* before and no two aliens at the same place.
C14_AsClaimed ==
    /\ [](Constructed => ExactFormation)
    /\ [][FleetReset => ExactFormation']_vars

\* the ship's rect is in the middle of the screen and x is float(rect.x)
Centered ==
    /\ ShipRect(ship_x).x + ShipRect(ship_x).w \div 2 =
          boundaries.x + boundaries.w \div 2
    /\ ship_x = Float(ShipRect(ship_x).x)

\* C17: a click on the Play button sets the score to 0, the level to 1
\* and ships_left to the starting count, leaves max_score and hi_score as
\* they are, empties the arsenal, builds the whole fleet anew, centres the
\* ship and leaves the game active.
C17_RestartEffect ==
    [][Restart =>
        /\ score' = 0
        /\ level' = 1
        /\ ships_left' = starting_ship_count
        /\ max_score' = max_score
        /\ hi_score' = hi_score
        /\ arsenal' = << >>
        /\ ExactFormation'
        /\ Centered'
        /\ game_active'
      ]_vars

\* a game in which a level had been cleared was restarted while K_RIGHT
\* was held
C17_Witness ==
    /\ game_active
    /\ score = 0 /\ level = 1 /\ ships_left = starting_ship_count
    /\ max_score >= Len(FreshFleet) * start_alien_points
    /\ hi_score >= max_score
    /\ arsenal = << >>
    /\ ExactFormation
    /\ Centered
    /\ moving_right

\* C18: the game is paused when it is built; a paused game becomes
\* active only by a click on the Play button (no key, no pass of the loop
\* does it), and an active game is paused only by a pass of the loop in
\* which the ship meets an alien.
C18_Transitions ==
    /\ [](Constructed => ~game_active)
    /\ [][/\ ~game_active /\ game_active' => Restart
          /\ game_active /\ ~game_active' => FrameStep /\ Hit
        ]_vars

\* a frame in which the ship met an alien has paused the game
C18_Witness ==
    /\ frames > 0
    /\ ~game_active
    /\ ships_left = 0
    /\ Centered
    /\ \E i \in 1..Len(fleet) :
          AlienRect(fleet[i]).y + AlienRect(fleet[i]).h > ShipRect(ship_x).y

\* the bottom of bullet b's rect
Bottom(b) == BulletRect(b).y + BulletRect(b).h

\* the bullets of the arsenal after Bullet.update of this frame
Advanced == [i \in 1..Len(arsenal) |-> Bullet_update(arsenal[i], bullet_speed)]

\* the bullets of the dict of collisions
Crashed ==
    UNION {{[x |-> b.x, y |-> b.y] : b \in collisions[k].bullets} :
           k \in 1..Len(collisions)}

\* C19: an active frame moves every bullet once and then removes the
\* bullets whose bottom is at or above 0, those and no other, so that
\* _check_collisions, and every state, sees no bullet with bottom <= 0.
C19_CullAfterAdvance ==
    /\ [](\A i \in 1..Len(arsenal) : Bottom(arsenal[i]) > 0)
    /\ [][ActiveFrame =>
            LET live(b) == Bottom(b) > 0
                gone(b) == Bottom(b) <= 0
                u == Ship_update(Game).arsenal
            IN  /\ u = SelectSeq(Advanced, live)
                /\ culled' = SelectSeq(Advanced, gone)
                /\ \A i \in 1..Len(u) : Bottom(u[i]) > 0
                /\ ~Rebuilt =>
                      /\ \A i \in 1..Len(arsenal') :
                            \E j \in 1..Len(u) : arsenal'[i] = u[j]
                      /\ \A j \in 1..Len(u) :
                            \/ \E i \in 1..Len(arsenal') : arsenal'[i] = u[j]
                            \/ u[j] \in Crashed'
        ]_vars

\* a frame has removed a bullet that flew out at the top and kept the
\* bullets below it
C19_Witness ==
    /\ frames > 0
    /\ Len(culled) > 0
    /\ \A i \in 1..Len(culled) : Bottom(culled[i]) <= 0
    /\ Len(arsenal) > 0

\* the aliens of s at the place of cell (row, col) of the grid of call c
AtCell(c, s, row, col) ==
    {i \in 1..Len(s) :
        s[i] = Alien(col * c.args.alien_w + c.args.x_offset,
                     row * c.args.alien_h + c.args.y_offset)}

\* C15: on an N x N grid _create_x_fleet creates one alien at
\* x = col * alien_w + x_offset, y = row * alien_h + y_offset for every
\* cell with col = row or col = N - 1 - row, no alien for any other cell
\* and no other alien; for odd N that is 2N - 1 aliens.
C15_XPattern ==
    call.fn = "create_x_fleet" /\ call.done =>
        LET N == call.args.fleet_w
            on == {rc \in (0..(N - 1)) \X (0..(N - 1)) :
                      rc[2] = rc[1] \/ rc[2] = N - 1 - rc[1]}
        IN  /\ \A row, col \in 0..(N - 1) :
                  Cardinality(AtCell(call, call.result, row, col)) =
                     IF << row, col >> \in on THEN 1 ELSE 0
            /\ Len(call.result) = Cardinality(on)
            /\ N % 2 = 1 => Len(call.result) = 2 * N - 1

\* _create_x_fleet has built the 13 aliens of the 7 x 7 grid of the game
C15_Witness ==
    /\ call.fn = "create_x_fleet" /\ call.done
    /\ call.args.fleet_w = 7
    /\ Len(call.result) = 13
    /\ call.result = FreshFleet

\* the largest grid that fits the screen: min(screen_w // w, screen_h // h)
MaxFleetSize(c) ==
    Min(c.args.screen_w \div c.args.alien_w, c.args.screen_h \div c.args.alien_h)

CeilDiv(a, b) == (a + b - 1) \div b

\* C20, as claimed: a bullet fired at y = 770 with speed 7 that meets no
\* alien is live after 109 update_arsenal and removed by the 110th,
\* ceil(770 / 7).
C20_AsClaimed ==
    call.fn = "update_arsenal" /\ call.args.y = 770
                               /\ call.args.bullet_speed = Float(start_bullet_speed) =>
        LET claimed == CeilDiv(Float(call.args.y), call.args.bullet_speed)
        IN  /\ call.n <= claimed
            /\ call.arsenal = << >> <=> call.n = claimed

\* C20, amended: a bullet fired with its top at y that meets no alien is
\* removed by the first update_arsenal after which its bottom, y +
\* bullet_h less the distance flown, is at or above 0: the
\* ceil((y + bullet_h) / bullet_speed)-th, which is the 118th for a bullet
\* of the game in level 1 (y = 740, bullet_h = 80, speed 7) and would be
\* the 122nd for y = 770.
C20_CullTiming ==
    call.fn = "update_arsenal" =>
        LET needed == CeilDiv(Float(call.args.y + bullet_h), call.args.bullet_speed)
        IN  /\ call.n <= needed
            /\ call.arsenal = << >> <=> call.n = needed
            /\ call.args.bullet_speed = Float(start_bullet_speed) =>
                  needed = IF call.args.y = ShipRect(0).y THEN 118 ELSE 122

\* the bullet of the game in level 1 has been removed by the 118th
\* update_arsenal
C20_Witness ==
    /\ call.fn = "update_arsenal" /\ call.done
    /\ call.args.y = ShipRect(0).y
    /\ call.args.bullet_speed = Float(start_bullet_speed)
    /\ call.n = 118
    /\ call.arsenal = << >>

\* the ship's rect of a call of _update_ship_movement, before the first
\* call and now
FirstRect == ShipRect(call.args.x)
NowRect == ShipRect(call.x)

\* C21: a ship whose rect.left is the left edge of the screen, with
\* moving_left set and moving_right not, stays where it is through any
\* number of _update_ship_movement, its rect.left at the edge; and so
\* does a ship whose rect.right is the right edge with only moving_right
\* set.
C21_BoundaryStall ==
    call.fn = "update_ship_movement" =>
        /\ (/\ FirstRect.x = boundaries.x
             /\ call.args.moving_left /\ ~call.args.moving_right) =>
               call.x = call.args.x /\ NowRect.x >= boundaries.x
        /\ (/\ FirstRect.x + FirstRect.w = boundaries.x + boundaries.w
             /\ call.args.moving_right /\ ~call.args.moving_left) =>
               /\ call.x = call.args.x
               /\ NowRect.x + NowRect.w <= boundaries.x + boundaries.w

\* a ship at x = 0.5, its rect.left at the left edge, has stayed there
\* through MaxAdvances calls with moving_left set
C21_Witness ==
    /\ call.fn = "update_ship_movement" /\ call.done
    /\ call.n = MaxAdvances
    /\ call.args.moving_left /\ ~call.args.moving_right
    /\ call.args.x > 0
    /\ NowRect.x = boundaries.x
    /\ call.x = call.args.x

\* C23, as claimed: when there is no scores file, or an empty one, or one
\* that cannot be parsed, init_saved_scores sets hi_score to 0 and
\* returns; no failure to read or to write the file raises an exception.
C23_AsClaimed ==
    call.fn = "init_saved_scores" /\ call.done =>
        /\ call.result.raised = "none"
        /\ (\/ ~call.args.file.exists
             \/ json_loads(call.args.file.text).raises # "none") =>
               call.result.hi_score = 0

\* C25: with moving_left and moving_right both set, one
\* _update_ship_movement adds the speed if rect.right is left of the right
\* edge and subtracts it if rect.left is right of the left edge, both
\* read from the rect as it was before the call: the ship stays where it
\* is when it touches no edge, moves left by the speed when at or past
\* the right edge and right by the speed when at or past the left edge.
C25_BothIntents ==
    (/\ call.fn = "update_ship_movement" /\ call.n = 1
     /\ call.args.moving_left /\ call.args.moving_right) =>
        LET speed == call.args.ship_speed
            free_right == FirstRect.x + FirstRect.w < boundaries.x + boundaries.w
            free_left == FirstRect.x > boundaries.x
        IN  /\ call.x = call.args.x + (IF free_right THEN speed ELSE 0)
                                     - (IF free_left THEN speed ELSE 0)
            /\ free_right /\ free_left => call.x = call.args.x
            /\ ~free_right => call.x = call.args.x - speed
            /\ ~free_left => call.x = call.args.x + speed

\* with both flags set a ship at the left edge has moved right by the
\* speed
C25_Witness ==
    /\ call.fn = "update_ship_movement" /\ call.n = 1
    /\ call.args.moving_left /\ call.args.moving_right
    /\ FirstRect.x = boundaries.x
    /\ call.x = call.args.x + call.args.ship_speed

\* C22: lockstep.  update_fleet of an active frame adds the same
\* fleet_speed times the one new direction to every alien's x and the
\* same 0 or drop distance to every alien's y, so the offset between two
\* aliens stays what it was; the aliens left when the frame ends, unless
\* it has rebuilt the fleet, are among the moved ones.
C22_Lockstep ==
    [][ActiveFrame =>
        LET m == Moved.fleet
            dx == fleet_speed * Moved.fleet_direction
        IN  /\ Len(m) = Len(fleet)
            /\ fleet_direction' = Moved.fleet_direction
            /\ \E dy \in {0, Float(fleet_drop_speed)} :
                  \A i \in 1..Len(fleet) :
                     m[i].x = fleet[i].x + dx /\ m[i].y = fleet[i].y + dy
            /\ \A i, j \in 1..Len(fleet) :
                  /\ m[i].x - m[j].x = fleet[i].x - fleet[j].x
                  /\ m[i].y - m[j].y = fleet[i].y - fleet[j].y
            /\ ~Rebuilt =>
                  \A j \in 1..Len(fleet') : \E i \in 1..Len(fleet) : fleet'[j] = m[i]
      ]_vars

\* a frame has moved to the right a fleet that has lost aliens and has
\* aliens in different rows and columns
C22_Witness ==
    /\ frames > 0
    /\ game_active
    /\ fleet_direction = 1
    /\ Len(fleet) < Len(x_fleet)
    /\ \E i, j \in 1..Len(fleet) :
          /\ fleet[i].x # fleet[j].x /\ fleet[i].y # fleet[j].y
          /\ ~check_edges(BeforeUpdate(fleet[i]))

\* C24: Ship.check_collisions in an active frame.  It is true exactly
\* when the ship's rect meets an alien's, and exactly then the frame takes
\* a ship or ends the game; when true, the ship is centred when the call
\* returns and when the frame ends, also when the game ends; when false,
\* the ship stays where Ship.update has put it; the call changes nothing
\* but the ship's x, so no alien leaves the fleet.
C24_CheckCollisions ==
    [][ActiveFrame =>
        LET c == Ship_check_collisions(Moved)
        IN  /\ c = [Moved EXCEPT !.ship_x = c.ship_x]
            /\ c.fleet = Moved.fleet
            /\ Hit <=> (ships_left' = ships_left - 1 \/ ~game_active')
            /\ Hit => c.ship_x = center_ship(Game).ship_x /\ Centered'
            /\ ~Hit => c.ship_x = Moved.ship_x /\ ship_x' = Moved.ship_x
      ]_vars

\* the game has ended in a frame that had moved the ship to the right:
\* the ship is centred again
C24_Witness ==
    /\ frames > 0
    /\ ~game_active
    /\ ships_left = 0
    /\ moving_right /\ ~moving_left
    /\ Centered

\* C26, as claimed: from a step that leaves the game active to the next,
\* whatever the event, the score and the level do not go down and
\* ships_left does not go up.
C26_AsClaimed ==
    [][game_active /\ game_active' =>
        /\ score' >= score
        /\ level' >= level
        /\ ships_left' <= ships_left
      ]_vars

\* C27: ships_left is in 0..starting_ship_count.  The game ends exactly
\* in the active frame in which the ship meets an alien while ships_left
\* is 0.  While ships_left > 0 such a frame takes one ship and resets
\* the level; with ships_left = 0 the handling of the collision changes
\* game_active and the ship's x and nothing else, and ships_left stays 0.
\* No other step takes a ship, and only a restart gives ships.
C27_Lives ==
    /\ [](ships_left \in 0..starting_ship_count)
    /\ [][/\ ActiveFrame =>
             /\ ~game_active' <=> (Hit /\ ships_left = 0)
             /\ Hit /\ ships_left > 0 =>
                   /\ ships_left' = ships_left - 1
                   /\ check_ship_hit(Moved) =
                         reset_level([center_ship(Moved) EXCEPT !.ships_left = @ - 1])
             /\ Hit /\ ships_left = 0 =>
                   /\ ships_left' = 0
                   /\ check_ship_hit(Moved) =
                         [center_ship(Moved) EXCEPT !.game_active = FALSE]
             /\ ~Hit => ships_left' = ships_left
          /\ ~FrameStep /\ ships_left' # ships_left =>
                Restart /\ ships_left' = starting_ship_count
        ]_vars

\* the frame that ended the game has left the fleet where it was: moved,
\* not rebuilt
C27_Witness ==
    /\ frames = 1
    /\ ~game_active
    /\ ships_left = 0
    /\ Len(fleet) = Len(x_fleet)
    /\ fleet # x_fleet
    /\ arsenal = << >>

\* the speeds of game g are the starting ones times
\* difficulty_scale^(level - 1)
InStep(g) ==
    LET d == Pow(difficulty_scale_den, g.level - 1)
        n == Pow(difficulty_scale_num, g.level - 1)
    IN  /\ g.ship_speed * d = Float(start_ship_speed) * n
        /\ g.bullet_speed * d = Float(start_bullet_speed) * n
        /\ g.fleet_speed * d = Float(start_fleet_speed) * n

\* the step is an active frame that takes a ship and leaves the game active
LifeLoss == ActiveFrame /\ Hit /\ ships_left > 0

\* C28: in every state each of the three speeds is its starting value
\* times difficulty_scale^(level - 1); a restart sets the level to 1 and
\* the speeds to their starting values; a frame that takes a ship
\* changes neither the level nor a speed.
C28_SpeedsFollowLevel ==
    /\ [](level >= 1 /\ InStep(Game))
    /\ [][/\ Restart =>
             /\ level' = 1
             /\ ship_speed' = Float(start_ship_speed)
             /\ bullet_speed' = Float(start_bullet_speed)
             /\ fleet_speed' = Float(start_fleet_speed)
          /\ LifeLoss =>
             /\ level' = level
             /\ UNCHANGED << ship_speed, bullet_speed, fleet_speed >>
        ]_vars

\* a game that had reached level 2 was restarted: level 1, starting speeds
C28_Witness ==
    /\ game_active
    /\ level = 1 /\ score = 0
    /\ max_score >= start_alien_points * Len(x_fleet)
    /\ ship_speed = Float(start_ship_speed)
    /\ fleet = x_fleet

\* C29: a frame that takes a ship and leaves the game active leaves the
\* score, max_score, hi_score, the level and the speeds (and the bullet
\* limit, the points per alien, the drop distance and the movement
\* flags) as they are; ships_left is one less, the arsenal is empty, the
\* fleet is the full formation, moving in the direction update_fleet has
\* left, the ship is centred, and no alien was destroyed by a bullet.
C29_LifeLossFrame ==
    [][LifeLoss =>
        /\ UNCHANGED << score, max_score, hi_score, level, advances,
                        ship_speed, bullet_speed, fleet_speed,
                        bullet_amount, alien_points, fleet_drop_speed,
                        moving_right, moving_left, running, game_active >>
        /\ ships_left' = ships_left - 1
        /\ arsenal' = << >>
        /\ fleet' = x_fleet
        /\ fleet_direction' = Moved.fleet_direction
        /\ Centered'
        /\ collisions' = << >>
      ]_vars

\* a frame has taken a ship from a player who was moving to the left
C29_Witness ==
    /\ frames > 0
    /\ game_active
    /\ ships_left = starting_ship_count - 1
    /\ moving_left
    /\ Centered
    /\ arsenal = << >>
    /\ fleet = x_fleet

\* what C30 calls the simulation, of game g
Simulation(g) ==
    [score |-> g.score, max_score |-> g.max_score, hi_score |-> g.hi_score,
     level |-> g.level, ships_left |-> g.ships_left,
     ship_speed |-> g.ship_speed, bullet_speed |-> g.bullet_speed,
     fleet_speed |-> g.fleet_speed,
     fleet |-> g.fleet, fleet_direction |-> g.fleet_direction,
     arsenal |-> g.arsenal, ship_x |-> g.ship_x,
     game_active |-> g.game_active]

\* C30: while the game is not active, a pass of the loop and a KEYDOWN
\* of any key change nothing (the flags and running included); a KEYUP
\* changes nothing of the simulation and sets no movement flag; and no
\* step but a restart changes the simulation.
C30_Frozen ==
    /\ [](~game_active =>
            /\ Simulation(run_game_updates(Game)) = Simulation(Game)
            /\ run_game_updates(Game).moving_right = moving_right
            /\ run_game_updates(Game).moving_left = moving_left
            /\ \A key \in Keys :
                  /\ check_events(Game, KeyDownEvent(key)) = Game
                  /\ LET up == check_events(Game, KeyUpEvent(key))
                     IN  /\ Simulation(up) = Simulation(Game)
                         /\ up.moving_right => moving_right
                         /\ up.moving_left => moving_left)
    /\ [][~game_active /\ ~Restart =>
            /\ Simulation(Game)' = Simulation(Game)
            /\ moving_right' => moving_right
            /\ moving_left' => moving_left
        ]_vars

\* two passes of the loop have left a game that has ended, with K_RIGHT
\* held, as it was
C30_Witness ==
    /\ frames = MaxFrames
    /\ ~game_active
    /\ ships_left = 0
    /\ moving_right
    /\ Centered
    /\ fleet # x_fleet

\* C31: in every state the score is alien_points times the number of
\* aliens the bullets have destroyed since the last restart, and at
\* least alien_points times the 2N - 1 aliens of a formation, N the
\* fleet size, for every level cleared; alien_points is the starting one.
C31_ScoreAccounting ==
    /\ alien_points = start_alien_points
    /\ score = alien_points * shot
    /\ Len(x_fleet) = 2 * fleet_size - 1
    /\ score >= alien_points * (2 * fleet_size - 1) * (level - 1)

\* a frame has destroyed the last alien of the first level: the score is
\* what the aliens of one formation are worth
C31_Witness ==
    /\ frames > 0
    /\ game_active
    /\ level = 2
    /\ Len(collisions) > 0
    /\ shot = Len(x_fleet)
    /\ score = alien_points * (2 * fleet_size - 1)

\* an alien of the fleet of the next state is at an edge
AnyAtEdgeNext == \E i \in 1..Len(fleet') : check_edges(fleet'[i])

\* the widest formation, with one move of the fleet, is narrower than
\* the screen, and the fleet moves at least one pixel a frame
Roomy ==
    /\ fleet_speed >= Float(1)
    /\ Float(fleet_size * alien_w) + fleet_speed < Float(boundaries.w)

\* an alien of the formation create_fleet builds is at an edge
FreshAtEdge == \E i \in 1..Len(x_fleet) : check_edges(x_fleet[i])

\* C32: no alien of a new formation is at an edge.  An active frame that
\* starts with an alien at an edge, and so reverses and drops the fleet,
\* ends with no alien at an edge, and only an active frame that starts
\* with no alien at an edge brings one to an edge: the frame after a
\* reversal makes none.
C32_NoDoubleReversal ==
    /\ [](Roomy /\ ~FreshAtEdge)
    /\ [][/\ ActiveFrame /\ AnyAtEdge =>
             /\ fleet_direction' = -fleet_direction
             /\ ~AnyAtEdgeNext
          /\ fleet' # fleet /\ AnyAtEdgeNext => ActiveFrame /\ ~AnyAtEdge
        ]_vars

\* a frame of the second level has reversed the fleet and no alien is at
\* an edge any more
C32_Witness ==
    /\ frames > 0
    /\ game_active
    /\ level = 2
    /\ ~AnyAtEdge
    /\ \E i \in 1..Len(fleet) :
          /\ check_edges(BeforeUpdate(fleet[i]))
          /\ fleet[i].y > x_fleet[1].y

\* every alien of the fleet is below the screen, where no bullet, which
\* starts at the ship's top and goes up, and no ship can meet it
Stranded ==
    /\ Len(fleet) > 0
    /\ \A i \in 1..Len(fleet) : AlienRect(fleet[i]).y >= boundaries.y + boundaries.h

\* C33, as claimed: no active game is in a state from which the aliens
\* can be neither shot nor met by the ship, such as one with every alien
\* below the bottom of the screen.
C33_AsClaimed == game_active => ~Stranded

\* C34: in every state the ship's rect is less than one ship_speed past
\* the right edge of the screen and less than one past the left edge;
\* and in an active frame _update_ship_movement moves a ship whose rect
\* is at or past the right edge no farther to the right, and one at or
\* past the left edge no farther to the left, and unless the ship meets
\* an alien that is where the frame leaves it.
C34_BoundedOvershoot ==
    /\ [](LET rect == ShipRect(ship_x)
          IN  /\ Float(rect.x + rect.w) < Float(boundaries.x + boundaries.w) + ship_speed
              /\ Float(rect.x) > Float(boundaries.x) - ship_speed)
    /\ [][ActiveFrame =>
            LET rect == ShipRect(ship_x)
                x == update_ship_movement(Game).ship_x
            IN  /\ rect.x + rect.w >= boundaries.x + boundaries.w => x <= ship_x
                /\ rect.x <= boundaries.x => x >= ship_x
                /\ ~Hit => ship_x' = x
        ]_vars

\* a frame has moved the ship past the left edge and the next one, with
\* K_LEFT held, has left it there
C34_Witness ==
    /\ frames = MaxFrames
    /\ game_active
    /\ moving_left /\ ~moving_right
    /\ ShipRect(ship_x).x < boundaries.x
    /\ ship_x > Float(boundaries.x) - ship_speed

=============================================================================
